---- MODULE Spec2Model ----
(***************************************************************************)
(* Dual-agent evidence-chain verification (core/dual_agent_verification.py *)
(* with utils/api_client.py as the gateway).                               *)
(*                                                                         *)
(* Numbers.  Python floats are modelled as exact rationals <<n, d>> in     *)
(* lowest terms with d > 0.  The values and confidences used here are      *)
(* small, so a comparison against 0.7, 0.8 or 0.95 has the same outcome on *)
(* the rational as on the double nearest to it.                            *)
(* Optional values.  None is <<>>, a present value x is <<x>>.             *)
(* Calls.  A call's outcome is [exc, ret]: exc = "" and ret = <<value>>    *)
(* for a return, exc = the exception's type and ret = <<>> for a raise.    *)
(***************************************************************************)
EXTENDS Integers, Sequences, FiniteSets, TLC

VARIABLES
    original,           \* resolve_conflict's argument `original`
    verification,       \* resolve_conflict's argument `verification` (Optional)
    rc,                 \* Optional outcome of resolve_conflict(original, verification)
    va,                 \* Optional record of _calculate_value_agreement on the two values
    llm_client,         \* the gateway the system was constructed with
    verification_log,   \* DualAgentVerificationSystem.verification_log
    ev,                 \* Optional record of the last extract_and_verify call
    summary,            \* Optional return of get_verification_summary, when it was
                        \* the last call
    rx,                 \* extract_with_regex_fixed's arguments and Optional return
    threads             \* the background threads running extract_and_verify on
                        \* the one shared system

consensusVars == <<original, verification, rc, va>>
systemVars == <<llm_client, verification_log, ev, summary>>
otherVars == <<rx, threads>>
vars == <<original, verification, rc, va, llm_client, verification_log, ev, summary,
          rx, threads>>

----------------------------------------------------------------------------
(* Optional values and call outcomes *)

None == <<>>
Some(x) == <<x>>
Get(o) == o[1]

Return(x) == [exc |-> "", ret |-> <<x>>]
Raise(e) == [exc |-> e, ret |-> <<>>]
Returned(o) == o.exc = ""
Value(o) == o.ret[1]

\* no call of extract_with_regex_fixed; no background thread started
NoRegexCall == [text |-> <<>>, page_num |-> 0, metrics |-> None]
NoThreads == <<>>

----------------------------------------------------------------------------
(* float arithmetic, on exact rationals *)

Abs(n) == IF n < 0 THEN -n ELSE n

RECURSIVE GCD(_, _)
GCD(a, b) == IF b = 0 THEN a ELSE GCD(b, a % b)

Rat(n, d) ==
    LET s == IF d < 0 THEN -1 ELSE 1
        g == GCD(Abs(n), Abs(d))
    IN  <<(s * n) \div g, (s * d) \div g>>

Num(v) == <<v, 1>>
RLt(x, y) == x[1] * y[2] < y[1] * x[2]
RGt(x, y) == RLt(y, x)
RLe(x, y) == ~RLt(y, x)
RMul(x, y) == Rat(x[1] * y[1], x[2] * y[2])
RAdd(x, y) == Rat(x[1] * y[2] + y[1] * x[2], x[2] * y[2])
RDiv(x, y) == Rat(x[1] * y[2], x[2] * y[1])
RMin(x, y) == IF RLt(y, x) THEN y ELSE x
RMax(x, y) == IF RGt(y, x) THEN y ELSE x
RAbs(x) == <<Abs(x[1]), x[2]>>

Zero == Num(0)
One == Num(1)

\* round(x) of a rational, ties to even
RoundHalfEven(x) ==
    LET q == x[1] \div x[2]
        r == x[1] % x[2]
    IN  IF 2 * r < x[2] THEN q
        ELSE IF 2 * r > x[2] THEN q + 1
        ELSE IF q % 2 = 0 THEN q ELSE q + 1

\* format(x, ".2%")
FormatPercent(x) ==
    LET bp == Abs(RoundHalfEven(RMul(x, Num(10000))))
        frac == bp % 100
    IN  (IF RLt(x, Zero) THEN "-" ELSE "") \o ToString(bp \div 100) \o "."
        \o (IF frac < 10 THEN "0" ELSE "") \o ToString(frac) \o "%"

----------------------------------------------------------------------------
(* str values: pad leading blanks, then the words joined by single blanks *)

Txt(ws) == [pad |-> 0, words |-> ws]
Padded(n, ws) == [pad |-> n, words |-> ws]
EmptyText == Txt(<<>>)

RECURSIVE SumLen(_)
SumLen(ws) == IF ws = <<>> THEN 0 ELSE Len(Head(ws)) + SumLen(Tail(ws))

\* len(s.strip())
StripLen(t) == IF t.words = <<>> THEN 0 ELSE SumLen(t.words) + Len(t.words) - 1
\* bool(s)
TextTruthy(t) == t.pad > 0 \/ t.words # <<>>
\* set(s.split())
Split(t) == {t.words[i] : i \in 1..Len(t.words)}

----------------------------------------------------------------------------
(* A confidence as the gateway's JSON may carry it: a number or a str.    *)

NumVal(r) == [k |-> "num", r |-> r, t |-> EmptyText]
StrVal(t) == [k |-> "str", r |-> Zero, t |-> t]
IsNum(j) == j.k = "num"

----------------------------------------------------------------------------
(* Data model *)

VERIFIED == "verified"
DISPUTED == "disputed"
UNCERTAIN == "uncertain"
REJECTED == "rejected"
VerificationStatus == {VERIFIED, DISPUTED, UNCERTAIN, REJECTED}

Evidence(source_quote, page_number, confidence, reasoning, assumptions, context_window) ==
    [source_quote |-> source_quote, page_number |-> page_number,
     confidence |-> confidence, reasoning |-> reasoning,
     assumptions |-> assumptions, context_window |-> context_window]

MetricClaim(metric_name, value, unit, period, evidence, extraction_method, agent_id) ==
    [metric_name |-> metric_name, value |-> value, unit |-> unit, period |-> period,
     evidence |-> evidence, extraction_method |-> extraction_method,
     agent_id |-> agent_id]

VerificationResult(original_claim, verification_claim, status, consensus_value, confidence_score, conflict_analysis, resolution_reasoning) ==
    [original_claim |-> original_claim, verification_claim |-> verification_claim,
     status |-> status, consensus_value |-> consensus_value,
     confidence_score |-> confidence_score, conflict_analysis |-> conflict_analysis,
     resolution_reasoning |-> resolution_reasoning]

----------------------------------------------------------------------------
(* ConsensusEngine *)

Min(a, b) == IF a < b THEN a ELSE b
Max(a, b) == IF a > b THEN a ELSE b

\* a mutation of _calculate_value_agreement: val1 / val2, no min and max
AgreementNoMinMax(val1, val2) ==
    IF val1 = 0 /\ val2 = 0 THEN One
    ELSE IF val1 = 0 \/ val2 = 0 THEN Zero
    ELSE RDiv(Num(val1), Num(val2))

_calculate_value_agreement(val1, val2) ==
    IF val1 = 0 /\ val2 = 0 THEN One
    ELSE IF val1 = 0 \/ val2 = 0 THEN Zero
    ELSE RDiv(Num(Min(val1, val2)), Num(Max(val1, val2)))

\* len(set(ev1.source_quote.split()) & set(ev2.source_quote.split()))
SharedTokens(ev1, ev2) == Cardinality(Split(ev1.source_quote) \cap Split(ev2.source_quote))

\* a mutation of _evaluate_evidence_strength: a conflict needs no shared token at all
EvidenceStrengthConflictNoShared(ev1, ev2) ==
    IF ~IsNum(ev1.confidence) THEN Raise("TypeError")
    ELSE IF RGt(ev1.confidence.r, Rat(7, 10)) /\ ~IsNum(ev2.confidence)
    THEN Raise("TypeError")
    ELSE Return(
        [both_strong |-> RGt(ev1.confidence.r, Rat(7, 10))
                         /\ RGt(ev2.confidence.r, Rat(7, 10)),
         source_overlap |-> SharedTokens(ev1, ev2) > 3,
         conflict |-> RGt(ev1.confidence.r, Rat(4, 5))
                      /\ RGt(ev2.confidence.r, Rat(4, 5))
                      /\ SharedTokens(ev1, ev2) < 1])

\* a comparison `confidence > 0.7` raises TypeError on a str confidence; `and`
\* evaluates its right operand only when the left one is true
_evaluate_evidence_strength(ev1, ev2) ==
    IF ~IsNum(ev1.confidence) THEN Raise("TypeError")
    ELSE IF RGt(ev1.confidence.r, Rat(7, 10)) /\ ~IsNum(ev2.confidence)
    THEN Raise("TypeError")
    ELSE Return(
        [both_strong |-> RGt(ev1.confidence.r, Rat(7, 10))
                         /\ RGt(ev2.confidence.r, Rat(7, 10)),
         source_overlap |-> SharedTokens(ev1, ev2) > 3,
         conflict |-> RGt(ev1.confidence.r, Rat(4, 5))
                      /\ RGt(ev2.confidence.r, Rat(4, 5))
                      /\ SharedTokens(ev1, ev2) < 2])

\* a mutation of _weighted_consensus: the unweighted mean, whatever the weights
UnweightedConsensus(orig, verif, evidence_strength) ==
    IF ~IsNum(orig.evidence.confidence) \/ ~IsNum(verif.evidence.confidence)
    THEN Raise("TypeError")
    ELSE Return(RDiv(RAdd(Num(orig.value), Num(verif.value)), Num(2)))

\* a mutation of _weighted_consensus: the original value is the consensus
ConsensusOfOriginal(orig, verif, evidence_strength) ==
    IF ~IsNum(orig.evidence.confidence) \/ ~IsNum(verif.evidence.confidence)
    THEN Raise("TypeError")
    ELSE Return(Num(orig.value))

\* a mutation of _weighted_consensus: the overlap boost goes to the original's weight only
BoostOriginalOnly(orig, verif, evidence_strength) ==
    IF ~IsNum(orig.evidence.confidence) \/ ~IsNum(verif.evidence.confidence)
    THEN Raise("TypeError")
    ELSE
    LET c1 == orig.evidence.confidence.r
        c2 == verif.evidence.confidence.r
        w1 == IF evidence_strength.source_overlap THEN RMul(c1, Rat(6, 5)) ELSE c1
        total_weight == RAdd(w1, c2)
    IN  IF total_weight = Zero
        THEN Return(RDiv(RAdd(Num(orig.value), Num(verif.value)), Num(2)))
        ELSE Return(RDiv(RAdd(RMul(Num(orig.value), w1), RMul(Num(verif.value), c2)),
                         total_weight))

\* `w2 *= 1.2` and `w1 + w2` raise TypeError on a str confidence
_weighted_consensus(orig, verif, evidence_strength) ==
    IF ~IsNum(orig.evidence.confidence) \/ ~IsNum(verif.evidence.confidence)
    THEN Raise("TypeError")
    ELSE
    LET c1 == orig.evidence.confidence.r
        c2 == verif.evidence.confidence.r
        w1 == IF evidence_strength.source_overlap THEN RMul(c1, Rat(6, 5)) ELSE c1
        w2 == IF evidence_strength.source_overlap THEN RMul(c2, Rat(6, 5)) ELSE c2
        total_weight == RAdd(w1, w2)
    IN  IF total_weight = Zero
        THEN Return(RDiv(RAdd(Num(orig.value), Num(verif.value)), Num(2)))
        ELSE Return(RDiv(RAdd(RMul(Num(orig.value), w1), RMul(Num(verif.value), w2)),
                         total_weight))

\* a mutation of the no-verification branch: the confidence is not halved
NoVerificationFullConfidence(orig) ==
    IF ~IsNum(orig.evidence.confidence) THEN Raise("TypeError")
    ELSE Return(VerificationResult(orig, None, UNCERTAIN, Some(Num(orig.value)),
                    orig.evidence.confidence.r,
                    "Verification failed",
                    "Using original claim with reduced confidence"))

NoVerification(orig) ==
    IF ~IsNum(orig.evidence.confidence) THEN Raise("TypeError")
    ELSE Return(VerificationResult(orig, None, UNCERTAIN, Some(Num(orig.value)),
                    RMul(orig.evidence.confidence.r, Rat(1, 2)),
                    "Verification failed",
                    "Using original claim with reduced confidence"))

StrongAgreement(orig, verif) ==
    Return(VerificationResult(orig, Some(verif), VERIFIED, Some(Num(orig.value)),
               RMin(orig.evidence.confidence.r, verif.evidence.confidence.r),
               "Strong agreement between agents",
               "Both agents found consistent evidence"))

\* a mutation of the strong-disagreement branch: the claim is rejected
StrongDisagreementRejected(orig, verif, value_agreement) ==
    Return(VerificationResult(orig, Some(verif), REJECTED, None, Rat(3, 10),
               "Value agreement: " \o FormatPercent(value_agreement)
                   \o ", Evidence conflict detected",
               "Significant disagreement between agents - manual review required"))

\* a mutation of the strong-disagreement branch: the original value is kept
StrongDisagreementKeepsValue(orig, verif, value_agreement) ==
    Return(VerificationResult(orig, Some(verif), DISPUTED, Some(Num(orig.value)),
               Rat(3, 10),
               "Value agreement: " \o FormatPercent(value_agreement)
                   \o ", Evidence conflict detected",
               "Significant disagreement between agents - manual review required"))

StrongDisagreement(orig, verif, value_agreement) ==
    Return(VerificationResult(orig, Some(verif), DISPUTED, None, Rat(3, 10),
               "Value agreement: " \o FormatPercent(value_agreement)
                   \o ", Evidence conflict detected",
               "Significant disagreement between agents - manual review required"))

ModerateAgreement(orig, verif, evidence_strength) ==
    LET consensus_value == _weighted_consensus(orig, verif, evidence_strength)
    IN  IF ~Returned(consensus_value) THEN consensus_value
        ELSE Return(VerificationResult(orig, Some(verif), UNCERTAIN,
                        Some(Value(consensus_value)), Rat(3, 5),
                        "Moderate agreement with some uncertainty",
                        "Using weighted consensus of both agents"))

resolve_conflict(orig, verif) ==
    IF verif = None THEN NoVerification(orig)
    ELSE
    LET value_agreement == _calculate_value_agreement(orig.value, Get(verif).value)
        strength == _evaluate_evidence_strength(orig.evidence, Get(verif).evidence)
    IN  IF ~Returned(strength) THEN strength
        ELSE IF RGt(value_agreement, Rat(19, 20)) /\ Value(strength).both_strong
        THEN StrongAgreement(orig, Get(verif))
        ELSE IF RLt(value_agreement, Rat(4, 5)) \/ Value(strength).conflict
        THEN StrongDisagreement(orig, Get(verif), value_agreement)
        ELSE ModerateAgreement(orig, Get(verif), Value(strength))

----------------------------------------------------------------------------
(* str operations used by utils/api_client.py *)

Contains(s, t) == \E i \in 1..(Len(s) - Len(t) + 1) : SubSeq(s, i, i + Len(t) - 1) = t
EndsWith(s, t) == Len(s) >= Len(t) /\ SubSeq(s, Len(s) - Len(t) + 1, Len(s)) = t

UpperCase == "ABCDEFGHIJKLMNOPQRSTUVWXYZ"
LowerCase == "abcdefghijklmnopqrstuvwxyz"
LowerChar(c) ==
    IF \E i \in 1..Len(UpperCase) : SubSeq(UpperCase, i, i) = c
    THEN LET i == CHOOSE j \in 1..Len(UpperCase) : SubSeq(UpperCase, j, j) = c
         IN  SubSeq(LowerCase, i, i)
    ELSE c

\* s.lower()
RECURSIVE Lower(_)
Lower(s) == IF Len(s) = 0 THEN "" ELSE LowerChar(SubSeq(s, 1, 1)) \o Lower(SubSeq(s, 2, Len(s)))

\* s.replace(',', '')
RECURSIVE RemoveCommas(_)
RemoveCommas(s) ==
    IF Len(s) = 0 THEN ""
    ELSE (IF SubSeq(s, 1, 1) = "," THEN "" ELSE SubSeq(s, 1, 1))
         \o RemoveCommas(SubSeq(s, 2, Len(s)))

Digits == "0123456789"
IsDigit(c) == \E i \in 1..Len(Digits) : SubSeq(Digits, i, i) = c
DigitValue(c) == (CHOOSE i \in 1..Len(Digits) : SubSeq(Digits, i, i) = c) - 1

RECURSIVE DigitsValue(_, _)
DigitsValue(s, acc) ==
    IF Len(s) = 0 THEN acc
    ELSE DigitsValue(SubSeq(s, 2, Len(s)), 10 * acc + DigitValue(SubSeq(s, 1, 1)))

\* float(s) of a run of digits; ValueError on the empty str
ParseFloat(s) ==
    IF Len(s) = 0 \/ \E i \in 1..Len(s) : ~IsDigit(SubSeq(s, i, i))
    THEN Raise("ValueError")
    ELSE Return(DigitsValue(s, 0))

\* str(x) of a float with an integral value
FloatStr(v) == ToString(v) \o ".0"

----------------------------------------------------------------------------
(* LLMClient (utils/api_client.py).  A page text is its length in          *)
(* characters and its lines; a line is a name followed by numeric columns, *)
(* each column the str of digits and commas printed in the document.       *)

Line(name, numbers) == [name |-> name, numbers |-> numbers]

RECURSIVE ColumnsLen(_)
ColumnsLen(numbers) ==
    IF numbers = <<>> THEN 0 ELSE 1 + Len(Head(numbers)) + ColumnsLen(Tail(numbers))

\* len(line) after line.strip()
LineLen(line) == Len(line.name) + ColumnsLen(line.numbers)

\* re.match(r'^([A-Za-z\s&\-\.]{5,50}?)\s+([\d,]{2,6})\s+([\d,]{2,6})(?:\s+([\d,]{2,6}))?', line)
MatchesTableRow(line) ==
    /\ Len(line.name) >= 5 /\ Len(line.name) <= 50
    /\ Len(line.numbers) >= 2
    /\ Len(line.numbers[1]) >= 2 /\ Len(line.numbers[1]) <= 6
    /\ Len(line.numbers[2]) >= 2

\* the source's list also holds a currency marker no matched name can contain
skip_terms == {"mar", "year", "ended", "page", "note", "see page",
               "fiscal year", "period", "month", "quarter"}

ryanair_targets ==
    <<"Total Revenue", "Scheduled Revenue", "Ancillary Revenue",
      "Total Operating Costs", "Fuel", "Ex-Fuel Costs",
      "Profit Before Tax", "Profit After Tax", "Net Income",
      "Total Assets", "Current Assets", "Non-Current Assets",
      "Gross Cash", "Net Cash", "Shareholder Equity">>

\* a mutation of the client's records: they carry the evidence fields too
ClientMetricWithEvidence(name, value, unit, period, confidence, source_text, page_num, method) ==
    [name |-> name, value |-> value, unit |-> unit, period |-> period,
     confidence |-> NumVal(Rat(5, 6)), source_text |-> source_text,
     page_number |-> page_num, extraction_method |-> method,
     source_quote |-> source_text,
     reasoning |-> Txt(<<"matched", "by", "the", "table", "pattern">>)]

ClientMetric(name, value, unit, period, confidence, source_text, page_num, method) ==
    [name |-> name, value |-> value, unit |-> unit, period |-> period,
     confidence |-> NumVal(confidence), source_text |-> source_text,
     page_number |-> page_num, extraction_method |-> method]

\* the body of the `for line in lines` loop: the metric of one line, if any
DirectMetric(line, page_num) ==
    IF LineLen(line) < 10 \/ ~MatchesTableRow(line) THEN None
    ELSE IF Len(line.name) < 5
            \/ \E skip \in skip_terms : Contains(Lower(line.name), skip)
    THEN None
    ELSE LET value == ParseFloat(RemoveCommas(line.numbers[1]))
         IN  IF ~Returned(value) THEN None
             ELSE IF Value(value) = 0 \/ Value(value) > 100000 THEN None
             ELSE Some(ClientMetric(line.name, Value(value), "million EUR", "2025",
                                    Rat(19, 20), Txt(<<line.name>> \o line.numbers),
                                    page_num, "direct_pattern_match"))

RECURSIVE DirectMetrics(_, _)
DirectMetrics(lines, page_num) ==
    IF lines = <<>> THEN <<>>
    ELSE DirectMetric(Head(lines), page_num) \o DirectMetrics(Tail(lines), page_num)

\* re.findall(rf'{re.escape(target)}\s+([\d,]+)', text, re.IGNORECASE): the first
\* columns of the lines whose name ends with the target
RECURSIVE TargetMatches(_, _)
TargetMatches(lines, target) ==
    IF lines = <<>> THEN <<>>
    ELSE (IF EndsWith(Lower(Head(lines).name), Lower(target)) /\ Head(lines).numbers # <<>>
          THEN <<Head(lines).numbers[1]>> ELSE <<>>)
         \o TargetMatches(Tail(lines), target)

RECURSIVE TargetedMetrics(_, _, _, _)
TargetedMetrics(lines, page_num, i, metrics) ==
    IF i > Len(ryanair_targets) THEN metrics
    ELSE
    LET target == ryanair_targets[i]
        matches == TargetMatches(lines, target)
        value == ParseFloat(RemoveCommas(matches[1]))
    IN  IF matches # <<>>
           /\ ~\E k \in 1..Len(metrics) : Lower(metrics[k].name) = Lower(target)
           /\ Returned(value) /\ 1 <= Value(value) /\ Value(value) <= 50000
        THEN TargetedMetrics(lines, page_num, i + 1,
                 Append(metrics,
                     ClientMetric(target, Value(value), "million EUR", "2025", Rat(9, 10),
                                  Txt(<<"Found:", target, matches[1]>>),
                                  page_num, "targeted_search")))
        ELSE TargetedMetrics(lines, page_num, i + 1, metrics)

_extract_ryanair_format_directly(text, page_num) ==
    TargetedMetrics(text.lines, page_num, 1, DirectMetrics(text.lines, page_num))

\* item.get('name') or item.get('metric_name') or item.get('metric') or ''
ItemName(item) ==
    IF "name" \in DOMAIN item /\ item.name # "" THEN item.name
    ELSE IF "metric_name" \in DOMAIN item /\ item.metric_name # "" THEN item.metric_name
    ELSE IF "metric" \in DOMAIN item /\ item.metric # "" THEN item.metric
    ELSE ""

\* item.get('value') or item.get('amount') or item.get('number') or 0
ItemValue(item) ==
    IF "value" \in DOMAIN item /\ item.value # 0 THEN item.value
    ELSE IF "amount" \in DOMAIN item /\ item.amount # 0 THEN item.amount
    ELSE IF "number" \in DOMAIN item /\ item.number # 0 THEN item.number
    ELSE 0

_normalize_metric(item, page_num) ==
    LET name == ItemName(item)
        value == ItemValue(item)
    IN  IF name = "" \/ value <= 0 THEN None
        ELSE Some(ClientMetric(name, value,
                      IF "unit" \in DOMAIN item THEN item.unit ELSE "unknown",
                      IF "period" \in DOMAIN item THEN item.period ELSE "2024",
                      Rat(4, 5), Txt(<<"LLM:", name, "=", ToString(value)>>),
                      page_num, "llm_normalized"))

RECURSIVE Normalized(_, _)
Normalized(items, page_num) ==
    IF items = <<>> THEN <<>>
    ELSE _normalize_metric(Head(items), page_num) \o Normalized(Tail(items), page_num)

\* strategy 3: the name-value pairs the three patterns find in the content
RECURSIVE RegexBackup(_, _)
RegexBackup(pairs, page_num) ==
    IF pairs = <<>> THEN <<>>
    ELSE (IF Len(Head(pairs).name) > 2 /\ 1 <= Head(pairs).value
             /\ Head(pairs).value <= 50000
          THEN <<ClientMetric(Head(pairs).name, Head(pairs).value, "unknown", "2024",
                              Rat(7, 10),
                              Txt(<<Head(pairs).name \o ":", FloatStr(Head(pairs).value)>>),
                              page_num, "regex_backup")>>
          ELSE <<>>)
         \o RegexBackup(Tail(pairs), page_num)

\* content is what the three strategies find in the reply: whether it holds a JSON
\* array that loads, the items of that array, the flat JSON objects, the pairs
_parse_any_json_format(content, page_num) ==
    LET strategy1 == IF content.array_loads THEN Normalized(content.items, page_num)
                     ELSE <<>>
        strategy2 == strategy1 \o Normalized(content.objects, page_num)
        metrics == IF strategy2 = <<>> THEN RegexBackup(content.pairs, page_num)
                   ELSE strategy2
    IN  SubSeq(metrics, 1, Min(Len(metrics), 10))

\* try: ... except Exception: return default
Except(outcome, default) == IF Returned(outcome) THEN outcome ELSE Return(default)

\* the try block of _try_llm_extraction; http is what requests.post does: it raises
\* (Timeout, ConnectionError) or returns a status and a body
TryLlmExtraction(http, page_num) ==
    IF http.kind \in {"Timeout", "ConnectionError"} THEN Raise(http.kind)
    ELSE IF http.status_code # 200 THEN Return(<<>>)
    ELSE IF http.body = "not json" THEN Raise("JSONDecodeError")
    ELSE IF http.body = "no choices" THEN Raise("KeyError")
    ELSE Return(_parse_any_json_format(http.content, page_num))

_try_llm_extraction(http, page_num) == Except(TryLlmExtraction(http, page_num), <<>>)

\* a mutation of extract_metrics: no exception handler on the way of a failed request
ExtractMetricsUnguarded(text, page_num, http) ==
    LET direct_metrics == _extract_ryanair_format_directly(text, page_num)
    IN  IF text.length > 500 /\ direct_metrics # <<>> THEN Return(direct_metrics)
        ELSE TryLlmExtraction(http, page_num)

extract_metrics(text, page_num, http) ==
    LET direct_metrics == _extract_ryanair_format_directly(text, page_num)
    IN  Except(IF text.length > 500 /\ direct_metrics # <<>> THEN Return(direct_metrics)
               ELSE _try_llm_extraction(http, page_num),
               <<>>)

----------------------------------------------------------------------------
(* str(x) of a float and the truth value of a gateway field *)

RECURSIVE IntDigits(_)
IntDigits(n) == IF n < 10 THEN 1 ELSE 1 + IntDigits(n \div 10)

RECURSIVE StripFactor(_, _)
StripFactor(d, p) == IF d % p = 0 THEN StripFactor(d \div p, p) ELSE d

RECURSIVE CountFactor(_, _)
CountFactor(d, p) == IF d % p = 0 THEN 1 + CountFactor(d \div p, p) ELSE 0

\* len(str(x)) of the float nearest to the rational r: the decimal expansion when it
\* terminates ("0.85", "1.0"), else the 16 fractional digits of the shortest repr that
\* round-trips ("0.8333333333333334")
ReprLen(r) ==
    LET d == r[2]
        terminates == StripFactor(StripFactor(d, 2), 5) = 1
        places == Max(CountFactor(d, 2), CountFactor(d, 5))
    IN  (IF r[1] < 0 THEN 1 ELSE 0) + IntDigits(Abs(r[1]) \div d) + 1
        + (IF terminates THEN Max(places, 1) ELSE 16)

\* bool(raw_metric[field])
FieldTruthy(raw, field) ==
    IF field = "confidence"
    THEN IF IsNum(raw.confidence) THEN raw.confidence.r # Zero
         ELSE TextTruthy(raw.confidence.t)
    ELSE TextTruthy(raw[field])

\* len(str(raw_metric[field]).strip())
FieldStrLen(raw, field) ==
    IF field = "confidence"
    THEN IF IsNum(raw.confidence) THEN ReprLen(raw.confidence.r)
         ELSE StripLen(raw.confidence.t)
    ELSE StripLen(raw[field])

----------------------------------------------------------------------------
(* ExtractionAgent *)

required_fields == {"source_quote", "confidence", "reasoning"}

\* a mutation of _has_valid_evidence: presence of the fields is all it asks
HasEvidenceFields(raw_metric) == \A field \in required_fields : field \in DOMAIN raw_metric

\* a mutation of _has_valid_evidence: the length test is for the two text fields only
HasValidEvidenceTextLength(raw_metric) ==
    \A field \in required_fields :
        /\ field \in DOMAIN raw_metric
        /\ FieldTruthy(raw_metric, field)
        /\ (field # "confidence" => FieldStrLen(raw_metric, field) > 10)

_has_valid_evidence(raw_metric) ==
    \A field \in required_fields :
        /\ field \in DOMAIN raw_metric
        /\ FieldTruthy(raw_metric, field)
        /\ FieldStrLen(raw_metric, field) > 10

\* the claim built of one record; a subscript of a missing key raises KeyError
ClaimOf(raw_metric, page_num, agent_id) ==
    IF ~({"metric_name", "value", "unit", "period"} \subseteq DOMAIN raw_metric)
    THEN Raise("KeyError")
    ELSE Return(MetricClaim(raw_metric.metric_name, raw_metric.value, raw_metric.unit,
                    raw_metric.period,
                    Evidence(raw_metric.source_quote, page_num, raw_metric.confidence,
                             raw_metric.reasoning,
                             IF "assumptions" \in DOMAIN raw_metric
                             THEN raw_metric.assumptions ELSE <<>>,
                             IF "context_window" \in DOMAIN raw_metric
                             THEN raw_metric.context_window ELSE EmptyText),
                    "llm_evidence_extraction", agent_id))

\* the `for raw_metric in response` loop
RECURSIVE ClaimsOf(_, _, _, _)
ClaimsOf(response, page_num, agent_id, claims) ==
    IF response = <<>> THEN Return(claims)
    ELSE IF ~_has_valid_evidence(Head(response))
    THEN ClaimsOf(Tail(response), page_num, agent_id, claims)
    ELSE LET claim == ClaimOf(Head(response), page_num, agent_id)
         IN  IF ~Returned(claim) THEN claim
             ELSE ClaimsOf(Tail(response), page_num, agent_id,
                           Append(claims, Value(claim)))

\* reply is the outcome of self.llm_client.extract_metrics(text, page_num, prompt, 120, industry)
extract_with_evidence(reply, page_num, agent_id) ==
    IF ~Returned(reply) THEN reply
    ELSE ClaimsOf(Value(reply), page_num, agent_id, <<>>)

----------------------------------------------------------------------------
(* VerificationAgent *)

\* verification_data.get(key, default)
GetOr(data, key, default) == IF key \in DOMAIN data THEN data[key] ELSE default

\* a mutation of verify_claim: what the record lacks is copied from the original claim
VerifyClaimCopiesEvidence(claim, reply, agent_id) ==
    IF ~Returned(reply) THEN reply
    ELSE IF Value(reply) = <<>> THEN Return(None)
    ELSE
    LET verification_data == Value(reply)[1]
    IN  Return(Some(MetricClaim(claim.metric_name,
                GetOr(verification_data, "your_value", claim.value),
                claim.unit, claim.period,
                Evidence(GetOr(verification_data, "your_source_quote",
                               claim.evidence.source_quote),
                         claim.evidence.page_number,
                         GetOr(verification_data, "your_confidence",
                               claim.evidence.confidence),
                         GetOr(verification_data, "your_reasoning",
                               claim.evidence.reasoning),
                         GetOr(verification_data, "conflict_points", <<>>),
                         EmptyText),
                "verification_check", agent_id)))

\* a mutation of verify_claim: no `if not response: return None` before response[0]
VerifyClaimNoEmptyCheck(claim, reply, agent_id) ==
    IF ~Returned(reply) THEN reply
    ELSE IF Value(reply) = <<>> THEN Raise("IndexError")
    ELSE
    LET verification_data == Value(reply)[1]
    IN  Return(Some(MetricClaim(claim.metric_name,
                GetOr(verification_data, "your_value", claim.value),
                claim.unit, claim.period,
                Evidence(GetOr(verification_data, "your_source_quote", EmptyText),
                         claim.evidence.page_number,
                         GetOr(verification_data, "your_confidence", NumVal(Zero)),
                         GetOr(verification_data, "your_reasoning", EmptyText),
                         GetOr(verification_data, "conflict_points", <<>>),
                         EmptyText),
                "verification_check", agent_id)))

\* reply is the outcome of self.llm_client.extract_metrics(full_text,
\* claim.evidence.page_number, verification_prompt, 90, "verification")
verify_claim(claim, reply, agent_id) ==
    IF ~Returned(reply) THEN reply
    ELSE IF Value(reply) = <<>> THEN Return(None)
    ELSE
    LET verification_data == Value(reply)[1]
    IN  Return(Some(MetricClaim(claim.metric_name,
                GetOr(verification_data, "your_value", claim.value),
                claim.unit, claim.period,
                Evidence(GetOr(verification_data, "your_source_quote", EmptyText),
                         claim.evidence.page_number,
                         GetOr(verification_data, "your_confidence", NumVal(Zero)),
                         GetOr(verification_data, "your_reasoning", EmptyText),
                         GetOr(verification_data, "conflict_points", <<>>),
                         EmptyText),
                "verification_check", agent_id)))

----------------------------------------------------------------------------
(* DualAgentVerificationSystem *)

LogEntry(page_num, claim, result) ==
    [page |-> page_num, metric |-> claim.metric_name, status |-> result.status,
     confidence |-> result.confidence_score, original_value |-> claim.value,
     consensus_value |-> result.consensus_value]

\* a mutation of the loop: the consensus engine consults the log, and gives up on a
\* verification once the log holds an entry
RECURSIVE VerifyFromLogAware(_, _, _, _, _, _, _)
VerifyFromLogAware(i, original_claims, replies, page_num, verification_results, log, events) ==
    IF i > Len(original_claims)
    THEN [outcome |-> Return(verification_results), log |-> log, events |-> events]
    ELSE
    LET claim == original_claims[i]
        verification_claim == verify_claim(claim, replies[i], "verifier_v1")
        queried == Append(events, "verification query")
    IN  IF ~Returned(verification_claim)
        THEN [outcome |-> verification_claim, log |-> log, events |-> queried]
        ELSE
        LET result == IF log = <<>>
                      THEN resolve_conflict(claim, Value(verification_claim))
                      ELSE resolve_conflict(claim, None)
        IN  IF ~Returned(result)
            THEN [outcome |-> result, log |-> log,
                  events |-> Append(queried, "resolve_conflict")]
            ELSE VerifyFromLogAware(i + 1, original_claims, replies, page_num,
                     Append(verification_results, Value(result)),
                     Append(log, LogEntry(page_num, claim, Value(result))),
                     queried \o <<"resolve_conflict", "log append">>)

\* the `for claim in original_claims` loop from claim i on; replies[i] is the outcome
\* of the gateway call verify_claim makes for claim i
RECURSIVE VerifyFrom(_, _, _, _, _, _, _)
VerifyFrom(i, original_claims, replies, page_num, verification_results, log, events) ==
    IF i > Len(original_claims)
    THEN [outcome |-> Return(verification_results), log |-> log, events |-> events]
    ELSE
    LET claim == original_claims[i]
        verification_claim == verify_claim(claim, replies[i], "verifier_v1")
        queried == Append(events, "verification query")
    IN  IF ~Returned(verification_claim)
        THEN [outcome |-> verification_claim, log |-> log, events |-> queried]
        ELSE
        LET result == resolve_conflict(claim, Value(verification_claim))
        IN  IF ~Returned(result)
            THEN [outcome |-> result, log |-> log,
                  events |-> Append(queried, "resolve_conflict")]
            ELSE VerifyFrom(i + 1, original_claims, replies, page_num,
                     Append(verification_results, Value(result)),
                     Append(log, LogEntry(page_num, claim, Value(result))),
                     queried \o <<"resolve_conflict", "log append">>)

Reverse(seq) == [k \in 1..Len(seq) |-> seq[Len(seq) + 1 - k]]

\* a mutation of extract_and_verify: the claims are processed last to first
ExtractAndVerifyReversed(reply, replies, page_num, log) ==
    LET original_claims == extract_with_evidence(reply, page_num, "extractor_v1")
    IN  IF ~Returned(original_claims)
        THEN [outcome |-> original_claims, log |-> log, events |-> <<"extraction query">>]
        ELSE IF Value(original_claims) = <<>>
        THEN [outcome |-> Return(<<>>), log |-> log, events |-> <<"extraction query">>]
        ELSE VerifyFrom(1, Reverse(Value(original_claims)), Reverse(replies), page_num,
                        <<>>, log, <<"extraction query">>)

\* a mutation of extract_and_verify: a page with no claim is logged too
ExtractAndVerifyLogsEmptyPage(reply, replies, page_num, log) ==
    LET original_claims == extract_with_evidence(reply, page_num, "extractor_v1")
    IN  IF ~Returned(original_claims)
        THEN [outcome |-> original_claims, log |-> log, events |-> <<"extraction query">>]
        ELSE IF Value(original_claims) = <<>>
        THEN [outcome |-> Return(<<>>),
              log |-> Append(log, [page |-> page_num, metric |-> "", status |-> UNCERTAIN,
                                   confidence |-> Zero, original_value |-> 0,
                                   consensus_value |-> None]),
              events |-> <<"extraction query", "log append">>]
        ELSE VerifyFrom(1, Value(original_claims), replies, page_num, <<>>, log,
                        <<"extraction query">>)

\* a mutation of extract_and_verify: the log is one page's, started anew at each call
ExtractAndVerifyPageLog(reply, replies, page_num, log) ==
    LET original_claims == extract_with_evidence(reply, page_num, "extractor_v1")
    IN  IF ~Returned(original_claims)
        THEN [outcome |-> original_claims, log |-> <<>>, events |-> <<"extraction query">>]
        ELSE IF Value(original_claims) = <<>>
        THEN [outcome |-> Return(<<>>), log |-> <<>>, events |-> <<"extraction query">>]
        ELSE VerifyFrom(1, Value(original_claims), replies, page_num, <<>>, <<>>,
                        <<"extraction query">>)

\* reply: the outcome of the extraction agent's gateway call; replies: those of the
\* verification agent's calls, one per extracted claim
extract_and_verify(reply, replies, page_num, log) ==
    LET original_claims == extract_with_evidence(reply, page_num, "extractor_v1")
    IN  IF ~Returned(original_claims)
        THEN [outcome |-> original_claims, log |-> log, events |-> <<"extraction query">>]
        ELSE IF Value(original_claims) = <<>>
        THEN [outcome |-> Return(<<>>), log |-> log, events |-> <<"extraction query">>]
        ELSE VerifyFrom(1, Value(original_claims), replies, page_num, <<>>, log,
                        <<"extraction query">>)

\* sum(1 for log in self.verification_log if log["status"] == status)
RECURSIVE CountStatus(_, _)
CountStatus(log, status) ==
    IF log = <<>> THEN 0
    ELSE (IF Head(log).status = status THEN 1 ELSE 0) + CountStatus(Tail(log), status)

\* sum(log["confidence"] for log in self.verification_log)
RECURSIVE SumConfidence(_)
SumConfidence(log) ==
    IF log = <<>> THEN Zero ELSE RAdd(Head(log).confidence, SumConfidence(Tail(log)))

\* the dict {}
EmptyDict == [k \in {} |-> 0]

\* a mutation of get_verification_summary: total_extractions counts the verified entries
SummaryTotalOfVerified(log) ==
    IF log = <<>> THEN EmptyDict
    ELSE [total_extractions |-> CountStatus(log, "verified"),
          verified_count |-> CountStatus(log, "verified"),
          disputed_count |-> CountStatus(log, "disputed"),
          verification_rate |-> Rat(CountStatus(log, "verified"), Len(log)),
          average_confidence |-> RDiv(SumConfidence(log), Num(Len(log))),
          requires_review |-> CountStatus(log, "disputed")]

\* a mutation of get_verification_summary: requires_review is a flag
SummaryReviewFlag(log) ==
    IF log = <<>> THEN EmptyDict
    ELSE [total_extractions |-> Len(log),
          verified_count |-> CountStatus(log, "verified"),
          disputed_count |-> CountStatus(log, "disputed"),
          verification_rate |-> Rat(CountStatus(log, "verified"), Len(log)),
          average_confidence |-> RDiv(SumConfidence(log), Num(Len(log))),
          requires_review |-> IF CountStatus(log, "disputed") > 0 THEN 1 ELSE 0]

get_verification_summary(log) ==
    IF log = <<>> THEN EmptyDict
    ELSE
    LET total == Len(log)
        verified == CountStatus(log, "verified")
        disputed == CountStatus(log, "disputed")
        avg_confidence == RDiv(SumConfidence(log), Num(total))
    IN  [total_extractions |-> total,
         verified_count |-> verified,
         disputed_count |-> disputed,
         verification_rate |-> IF total > 0 THEN Rat(verified, total) ELSE Zero,
         average_confidence |-> avg_confidence,
         requires_review |-> disputed]

----------------------------------------------------------------------------
(* Inputs of the consensus engine *)

QuoteA == Txt(<<"Total", "revenue", "was", "1000", "EUR">>)
QuoteB == Txt(<<"Total", "revenue", "was", "1005", "EUR">>)
QuoteC == Txt(<<"Revenue", "1000">>)
QuoteD == Txt(<<"revenue", "was", "700">>)
Reasoning == Txt(<<"stated", "in", "the", "income", "table">>)

Values == {-1000, -700, 0, 700, 800, 900, 950, 1000, 1005}
Confidences == {Zero, Rat(1, 2), Rat(7, 10), Rat(3, 4), Rat(4, 5), Rat(17, 20), Rat(9, 10)}

Originals ==
    {MetricClaim("revenue", v, "million EUR", "2024",
                 Evidence(q, 1, NumVal(c), Reasoning, <<>>, EmptyText),
                 "llm_evidence_extraction", "extractor_v1")
        : v \in Values, c \in Confidences, q \in {QuoteA, QuoteC}}

Verifications ==
    {MetricClaim("revenue", v, "million EUR", "2024",
                 Evidence(q, 1, NumVal(c), Reasoning, <<>>, EmptyText),
                 "verification_check", "verifier_v1")
        : v \in Values, c \in Confidences, q \in {QuoteB, QuoteC, QuoteD, EmptyText}}

----------------------------------------------------------------------------
(* The consensus engine applied to drawn inputs *)

InitConsensus ==
    /\ original \in Originals
    /\ verification \in {None} \cup {Some(v) : v \in Verifications}
    /\ rc = None
    /\ va = None
    /\ llm_client = "oracle"
    /\ verification_log = <<>>
    /\ ev = None
    /\ summary = None
    /\ rx = NoRegexCall
    /\ threads = NoThreads

ResolveConflict ==
    /\ rc' = Some(resolve_conflict(original, verification))
    /\ UNCHANGED <<original, verification, va>>
    /\ UNCHANGED systemVars
    /\ UNCHANGED otherVars

CalculateValueAgreement ==
    /\ verification # None
    /\ va' = Some([ab |-> _calculate_value_agreement(original.value, Get(verification).value),
                   ba |-> _calculate_value_agreement(Get(verification).value, original.value)])
    /\ UNCHANGED <<original, verification, rc>>
    /\ UNCHANGED systemVars
    /\ UNCHANGED otherVars

NextConsensus == ResolveConflict \/ CalculateValueAgreement

SpecConsensus == InitConsensus /\ [][NextConsensus]_vars

----------------------------------------------------------------------------
(* Inputs of the system: what the gateway answers *)

MaxResponse == 2

GoodMetric ==
    [metric_name |-> "revenue", value |-> 1000, unit |-> "million EUR",
     period |-> "2024", source_quote |-> QuoteA,
     confidence |-> NumVal(Rat(5, 6)), reasoning |-> Reasoning]

With(record, key, value) == [record EXCEPT ![key] = value]
Without(record, keys) == [k \in DOMAIN record \ keys |-> record[k]]

\* str(0.8333333333333334), "0.85 (high confidence)" and str(1.1666666666666667) pass
\* the evidence check; str(0.9), a 9-character reasoning and a padded "ok" do not
RawMetrics ==
    {GoodMetric,
     With(GoodMetric, "confidence", NumVal(Rat(2, 3))),
     With(GoodMetric, "confidence", NumVal(Rat(7, 6))),
     With(GoodMetric, "confidence", StrVal(Txt(<<"0.85", "(high", "confidence)">>))),
     With(GoodMetric, "confidence", NumVal(Rat(9, 10))),
     With(GoodMetric, "confidence", NumVal(Zero)),
     With(GoodMetric, "reasoning", Txt(<<"see", "table">>)),
     With(GoodMetric, "reasoning", Padded(9, <<"ok">>)),
     With(GoodMetric, "source_quote", EmptyText)}
    \cup {Without(GoodMetric, {field}) : field \in DOMAIN GoodMetric}

OracleResponses == UNION {[1..n -> RawMetrics] : n \in 0..MaxResponse}

VerificationRecords ==
    {[verification_status |-> "verified", your_source_quote |-> QuoteB,
      your_value |-> 1005, your_confidence |-> NumVal(Rat(17, 20)),
      your_reasoning |-> Reasoning, conflict_points |-> <<>>],
     [verification_status |-> "uncertain", your_source_quote |-> QuoteB,
      your_value |-> 900, your_confidence |-> NumVal(Rat(9, 10)),
      your_reasoning |-> Reasoning, conflict_points |-> <<>>],
     [verification_status |-> "disputed", your_source_quote |-> QuoteC,
      your_value |-> 700, your_confidence |-> NumVal(Rat(9, 10)),
      your_reasoning |-> Reasoning, conflict_points |-> <<"another total">>],
     [verification_status |-> "verified", your_source_quote |-> QuoteB,
      your_value |-> 1000, your_confidence |-> NumVal(Num(5)),
      your_reasoning |-> Reasoning, conflict_points |-> <<>>],
     [verification_status |-> "verified", your_source_quote |-> QuoteB,
      your_value |-> 1000, your_confidence |-> StrVal(Txt(<<"high">>)),
      your_reasoning |-> Reasoning, conflict_points |-> <<>>],
     [verification_status |-> "uncertain"],
     [agreement_analysis |-> "nothing found"]}

OracleVerificationResponses == {<<>>} \cup {<<data>> : data \in VerificationRecords}

NoContent == [array_loads |-> FALSE, items |-> <<>>, objects |-> <<>>, pairs |-> <<>>]

Contents ==
    {[array_loads |-> TRUE, items |-> <<[name |-> "Revenue", value |-> 1234]>>,
      objects |-> <<[name |-> "Revenue", value |-> 1234]>>,
      pairs |-> <<[name |-> "Revenue", value |-> 1234]>>],
     [array_loads |-> TRUE, items |-> <<[metric |-> "Cash", amount |-> 0]>>,
      objects |-> <<[metric |-> "Cash", amount |-> 0]>>,
      pairs |-> <<[name |-> "amount", value |-> 0]>>],
     [array_loads |-> FALSE, items |-> <<>>, objects |-> <<>>,
      pairs |-> <<[name |-> "Revenue", value |-> 1234], [name |-> "x", value |-> 7]>>]}

NoHttp == [kind |-> "none", status_code |-> 0, body |-> "", content |-> NoContent]

HttpOutcomes ==
    {[kind |-> k, status_code |-> 0, body |-> "", content |-> NoContent]
        : k \in {"Timeout", "ConnectionError"}}
    \cup {[kind |-> "Response", status_code |-> 500, body |-> "", content |-> NoContent]}
    \cup {[kind |-> "Response", status_code |-> 200, body |-> b, content |-> NoContent]
            : b \in {"not json", "no choices"}}
    \cup {[kind |-> "Response", status_code |-> 200, body |-> "json", content |-> c]
            : c \in Contents}

NoText == [length |-> 0, lines |-> <<>>]

Texts ==
    {[length |-> 120,
      lines |-> <<Line("Total Revenue", <<"13,948", "13,444", "10,775">>)>>],
     [length |-> 2400,
      lines |-> <<Line("Year ended Mar", <<"2025", "2024">>),
                  Line("Total Revenue", <<"13,948", "13,444", "10,775">>),
                  Line("Fuel", <<"5,220", "5,143">>)>>],
     [length |-> 2400,
      lines |-> <<Line("The airline carried more passengers", <<>>)>>],
     [length |-> 900,
      lines |-> <<Line("Net Cash", <<"1,304">>)>>]}

PageNumbers == {1, 2}

\* a second record that becomes a claim
SecondMetric == [GoodMetric EXCEPT !.metric_name = "net income", !.value = 700]

\* a record the evidence check drops
WeakMetric == With(GoodMetric, "confidence", NumVal(Rat(9, 10)))

\* the extraction responses of a scripted gateway: no record, no record with evidence,
\* one claim, two claims, claims around a dropped record, a record with no metric_name
ScriptedResponses ==
    {<<>>,
     <<WeakMetric>>,
     <<GoodMetric>>,
     <<WeakMetric, SecondMetric>>,
     <<GoodMetric, SecondMetric>>,
     <<SecondMetric, WeakMetric, GoodMetric>>,
     <<GoodMetric, Without(GoodMetric, {"metric_name"})>>}

\* its verification records: strong agreement, moderate agreement, disagreement
ScriptedVerificationResponses ==
    {<<>>}
    \cup {<<data>> : data \in {r \in VerificationRecords :
                /\ "your_value" \in DOMAIN r
                /\ r.your_value \in {1005, 900, 700}}}

\* the requests of the scripted gateway that fail
ScriptedFailures == {h \in HttpOutcomes : h.kind \in {"Timeout", "ConnectionError"}}

\* the texts a call is given; the answer of an oracle does not depend on the text
TextsFor(client) == IF client = "LLMClient" THEN Texts ELSE {NoText}

\* the page numbers a call is given; those of an oracle's run grow with the log
PagesFor(client) ==
    IF client = "LLMClient" THEN PageNumbers ELSE {1 + Len(verification_log)}

\* self.llm_client.extract_metrics(text, page_num, prompt, context=...) of the
\* repository's LLMClient, for each text, page and outcome of its request
ClientReplies ==
    {<<text, page_num, http, extract_metrics(text, page_num, http)>>
        : text \in Texts, page_num \in PageNumbers, http \in HttpOutcomes}

ClientReply(text, page_num, http) ==
    (CHOOSE r \in ClientReplies : r[1] = text /\ r[2] = page_num /\ r[3] = http)[4]


\* the gateway calls llm_client.extract_metrics(text, page_num, prompt, timeout, context)
\* can make: what the request met and the outcome of the call
GatewayCalls(client, text, page_num, context) ==
    IF client = "oracle"
    THEN {[context |-> context, http |-> NoHttp, reply |-> Return(response)]
            : response \in IF context = "verification"
                           THEN OracleVerificationResponses ELSE OracleResponses}
    ELSE IF client = "scripted"
    THEN {[context |-> context, http |-> NoHttp, reply |-> Return(response)]
            : response \in IF context = "verification"
                           THEN ScriptedVerificationResponses ELSE ScriptedResponses}
         \cup {[context |-> context, http |-> http,
                 reply |-> extract_metrics(text, page_num, http)]
                    : http \in IF context = "verification" THEN ScriptedFailures ELSE {}}
    ELSE {[context |-> context, http |-> http,
           reply |-> ClientReply(text, page_num, http)] : http \in HttpOutcomes}

----------------------------------------------------------------------------
(* One extract_and_verify call *)

Replies(calls) == [i \in 1..Len(calls) |-> calls[i].reply]

ExtractAndVerify ==
    \E text \in TextsFor(llm_client), page_num \in PagesFor(llm_client) :
    \E call \in GatewayCalls(llm_client, text, page_num, "extraction") :
        LET claims == extract_with_evidence(call.reply, page_num, "extractor_v1")
            n == IF Returned(claims) THEN Len(Value(claims)) ELSE 0
        IN  \E calls \in [1..n -> GatewayCalls(llm_client, text, page_num, "verification")] :
                LET done == extract_and_verify(call.reply, Replies(calls), page_num,
                                               verification_log)
                IN  /\ verification_log' = done.log
                    /\ ev' = Some([text |-> text, page_num |-> page_num,
                                   extraction_call |-> call, claims |-> claims,
                                   verification_calls |-> calls,
                                   log_before |-> verification_log,
                                   outcome |-> done.outcome, events |-> done.events])
                    /\ summary' = None
                    /\ UNCHANGED llm_client
                    /\ UNCHANGED consensusVars
                    /\ UNCHANGED otherVars

\* one page on a freshly constructed system
InitPage ==
    /\ llm_client \in {"oracle", "LLMClient"}
    /\ verification_log = <<>>
    /\ ev = None
    /\ summary = None
    /\ rx = NoRegexCall
    /\ threads = NoThreads
    /\ original \in {MetricClaim("revenue", 1000, "million EUR", "2024",
                         Evidence(QuoteA, 1, NumVal(Rat(9, 10)), Reasoning, <<>>, EmptyText),
                         "llm_evidence_extraction", "extractor_v1")}
    /\ verification = None
    /\ rc = None
    /\ va = None

FirstPage == ev = None /\ ExtractAndVerify

NextPage == FirstPage

SpecPage == InitPage /\ [][NextPage]_vars

----------------------------------------------------------------------------
(* A sequence of calls on one system *)

MaxLog == 2

Init ==
    /\ llm_client = "scripted"
    /\ verification_log = <<>>
    /\ ev = None
    /\ summary = None
    /\ rx = NoRegexCall
    /\ threads = NoThreads
    /\ original \in {MetricClaim("revenue", 1000, "million EUR", "2024",
                         Evidence(QuoteA, 1, NumVal(Rat(9, 10)), Reasoning, <<>>, EmptyText),
                         "llm_evidence_extraction", "extractor_v1")}
    /\ verification = None
    /\ rc = None
    /\ va = None

\* the next page of the document, while the log is short
Page == Len(verification_log) < MaxLog /\ ExtractAndVerify

GetVerificationSummary ==
    /\ summary' = Some(get_verification_summary(verification_log))
    /\ UNCHANGED <<llm_client, verification_log, ev>>
    /\ UNCHANGED consensusVars
    /\ UNCHANGED otherVars

Next == Page \/ GetVerificationSummary

Spec == Init /\ [][Next]_vars

----------------------------------------------------------------------------
(* A sequence of calls on a system whose gateway is the repository's LLMClient *)

InitClient ==
    /\ llm_client = "LLMClient"
    /\ verification_log = <<>>
    /\ ev = None
    /\ summary = None
    /\ rx = NoRegexCall
    /\ threads = NoThreads
    /\ original \in {MetricClaim("revenue", 1000, "million EUR", "2024",
                         Evidence(QuoteA, 1, NumVal(Rat(9, 10)), Reasoning, <<>>, EmptyText),
                         "llm_evidence_extraction", "extractor_v1")}
    /\ verification = None
    /\ rc = None
    /\ va = None

NextClient == ExtractAndVerify \/ GetVerificationSummary

SpecClient == InitClient /\ [][NextClient]_vars

----------------------------------------------------------------------------
(* extract_with_regex_fixed (test_extraction.py).  The text is its lines,   *)
(* which "\n" joins; a line is a name of letters, spaces, '&' and '-'       *)
(* followed by numeric columns, single spaces between them.  A metric's     *)
(* name is the str the pattern captured, line breaks included.              *)

\* the source's list also holds a currency marker no captured name can contain
header_words == {"mar", "income statement", "balance sheet"}

target_metrics ==
    <<"Total Revenue", "Scheduled Revenue", "Ancillary Revenue",
      "Profit After Tax", "Profit Before Tax", "Net Income",
      "Total Assets", "Current Assets", "Non-Current Assets",
      "Shareholder Equity", "Total Liabilities", "Net Cash",
      "Gross Cash", "Current Liabilities", "Non-Current Liabilities">>

\* the source's list also holds the currency marker
line_skip_words == {"mar", "income", "balance"}

RegexMetric(metric, value, confidence, page_num, method, source_text) ==
    [metric |-> metric, value |-> value, unit |-> "million EUR", period |-> "2025",
     confidence |-> confidence, page_number |-> page_num,
     extraction_method |-> method, source_text |-> source_text]

\* float(value_str.replace(',', ''))
ColumnValue(s) == ParseFloat(RemoveCommas(s))

\* the line as the document prints it
RECURSIVE ColumnsStr(_)
ColumnsStr(numbers) ==
    IF numbers = <<>> THEN "" ELSE " " \o Head(numbers) \o ColumnsStr(Tail(numbers))

LineStr(line) == line.name \o ColumnsStr(line.numbers)

\* re.findall(r'([A-Za-z\s&-]+?)\s+([\d,]+)\s+([\d,]+)\s+([\d,]+)', text), groups 1
\* and 2 of each match: the name class holds the line break, so the captured
\* name starts where the last column before it ended and runs over every
\* line without columns in between (`run`); a line with one or two columns
\* ends the run without a match
RECURSIVE Pattern1Matches(_, _)
Pattern1Matches(lines, run) ==
    IF lines = <<>> THEN <<>>
    ELSE LET line == Head(lines)
             name == IF run = "" THEN line.name ELSE run \o "\n" \o line.name
         IN  IF Len(line.numbers) >= 3
             THEN <<[name |-> name, number |-> line.numbers[1]]>>
                  \o Pattern1Matches(Tail(lines), "")
             ELSE IF line.numbers = <<>>
             THEN Pattern1Matches(Tail(lines), name)
             ELSE Pattern1Matches(Tail(lines), "")

\* the loop over matches1; str.isdigit() is false of every captured name
RECURSIVE Pattern1Metrics(_, _)
Pattern1Metrics(matches, page_num) ==
    IF matches = <<>> THEN <<>>
    ELSE LET m == Head(matches)
             value == ColumnValue(m.number)
             rest == Pattern1Metrics(Tail(matches), page_num)
         IN  IF ~Returned(value) THEN rest
             ELSE IF Len(m.name) < 3 THEN rest
             ELSE IF \E word \in header_words : Contains(Lower(m.name), word) THEN rest
             ELSE <<RegexMetric(m.name, Value(value), Rat(85, 100), page_num,
                                "regex_fixed", m.name \o ": " \o m.number)>> \o rest

\* the number of digits s starts with
RECURSIVE DigitRun(_)
DigitRun(s) ==
    IF Len(s) = 0 \/ ~IsDigit(SubSeq(s, 1, 1)) THEN 0
    ELSE 1 + DigitRun(SubSeq(s, 2, Len(s)))

\* (\d{1,2},?\d{3,4}) matched at the start of a column: the Optional capture
TargetNumber(s) ==
    LET r == DigitRun(s)
        r2 == DigitRun(SubSeq(s, r + 2, Len(s)))
    IN  IF r >= 4 THEN Some(SubSeq(s, 1, Min(r, 6)))
        ELSE IF r \in {1, 2} /\ Len(s) > r /\ SubSeq(s, r + 1, r + 1) = "," /\ r2 >= 3
        THEN Some(SubSeq(s, 1, r + 1 + Min(r2, 4)))
        ELSE None

\* re.findall(rf'{re.escape(target)}\s*[:\s]*(\d{{1,2}},?\d{{3,4}})', text,
\* re.IGNORECASE): the first match, if any
RECURSIVE FirstTargetMatch(_, _)
FirstTargetMatch(lines, target) ==
    IF lines = <<>> THEN None
    ELSE LET line == Head(lines)
         IN  IF /\ line.numbers # <<>>
                /\ EndsWith(Lower(line.name), Lower(target))
                /\ TargetNumber(line.numbers[1]) # None
             THEN TargetNumber(line.numbers[1])
             ELSE FirstTargetMatch(Tail(lines), target)

\* the loop over target_metrics
RECURSIVE Pattern2Metrics(_, _, _, _)
Pattern2Metrics(targets, lines, page_num, metrics) ==
    IF targets = <<>> THEN metrics
    ELSE LET target == Head(targets)
             matches == FirstTargetMatch(lines, target)
             value == ColumnValue(Get(matches))
         IN  IF \/ matches = None
                \/ ~Returned(value)
                \/ \E i \in 1..Len(metrics) :
                      Contains(Lower(metrics[i].metric), Lower(target))
             THEN Pattern2Metrics(Tail(targets), lines, page_num, metrics)
             ELSE Pattern2Metrics(Tail(targets), lines, page_num,
                      Append(metrics,
                             RegexMetric(target, Value(value), Rat(90, 100), page_num,
                                         "regex_targeted",
                                         target \o ": " \o Get(matches))))

\* re.match(r'([A-Za-z\s&-]+?)\s+([\d,]{3,6})(?:\s|$)', line)
MatchesLine(line) ==
    /\ line.numbers # <<>>
    /\ Len(line.numbers[1]) >= 3 /\ Len(line.numbers[1]) <= 6

\* the loop over text.split('\n')
RECURSIVE Pattern3Metrics(_, _, _)
Pattern3Metrics(lines, page_num, metrics) ==
    IF lines = <<>> THEN metrics
    ELSE LET line == Head(lines)
             value == ColumnValue(line.numbers[1])
             skipped == Pattern3Metrics(Tail(lines), page_num, metrics)
         IN  IF LineLen(line) < 10 \/ ~MatchesLine(line) THEN skipped
             ELSE IF ~Returned(value) THEN skipped
             ELSE IF \/ Len(line.name) < 5
                     \/ \E i \in 1..Len(metrics) :
                           Lower(metrics[i].metric) = Lower(line.name)
                     \/ \E skip \in line_skip_words : Contains(Lower(line.name), skip)
             THEN skipped
             ELSE IF 100 <= Value(value) /\ Value(value) <= 50000
             THEN Pattern3Metrics(Tail(lines), page_num,
                      Append(metrics,
                             RegexMetric(line.name, Value(value), Rat(75, 100), page_num,
                                         "regex_line", LineStr(line))))
             ELSE skipped

extract_with_regex_fixed(text, page_num) ==
    Pattern3Metrics(text, page_num,
        Pattern2Metrics(target_metrics, text, page_num,
            Pattern1Metrics(Pattern1Matches(text, ""), page_num)))

----------------------------------------------------------------------------
(* extract_with_regex_fixed applied to drawn texts *)

MaxLines == 2

\* table rows with three columns, a row with two, and a heading
RegexLines ==
    {Line("Total Revenue", <<"13,949", "13,444", "10,775">>),
     Line("Fuel", <<"5,220", "5,143", "4,026">>),
     Line("Marketing Costs", <<"1,000", "900", "800">>),
     Line("Foreign Exchange", <<"3", "5", "34">>),
     Line("Net Cash", <<"1,304", "1,373", "559">>),
     Line("Lease Cost", <<"224", "62">>),
     Line("Income Statement", <<>>)}

RegexTexts == UNION {[1..n -> RegexLines] : n \in 0..MaxLines}

InitRegex ==
    /\ rx \in {[text |-> text, page_num |-> page_num, metrics |-> None]
                : text \in RegexTexts, page_num \in PageNumbers}
    /\ threads = NoThreads
    /\ llm_client = "oracle"
    /\ verification_log = <<>>
    /\ ev = None
    /\ summary = None
    /\ original \in {MetricClaim("revenue", 1000, "million EUR", "2024",
                         Evidence(QuoteA, 1, NumVal(Rat(9, 10)), Reasoning, <<>>, EmptyText),
                         "llm_evidence_extraction", "extractor_v1")}
    /\ verification = None
    /\ rc = None
    /\ va = None

ExtractWithRegexFixed ==
    /\ rx.metrics = None
    /\ rx' = [rx EXCEPT !.metrics = Some(extract_with_regex_fixed(rx.text, rx.page_num))]
    /\ UNCHANGED threads
    /\ UNCHANGED consensusVars
    /\ UNCHANGED systemVars

NextRegex == ExtractWithRegexFixed

SpecRegex == InitRegex /\ [][NextRegex]_vars

----------------------------------------------------------------------------
(* Two extract_and_verify calls on the one shared system, each on a         *)
(* background thread of the application.  The interpreter runs one thread   *)
(* at a time and switches between bytecodes; list.append is one call into   *)
(* the interpreter, so it is one step.  A thread's step is one gateway      *)
(* query with the local work after it, or its one append to the shared log. *)

Threads == {"process_document_async", "process_url_async"}

PageOf(t) == IF t = "process_document_async" THEN 1 ELSE 2

\* a record whose confidence is a str: it passes the evidence check
StrMetric ==
    [SecondMetric EXCEPT !.confidence = StrVal(Txt(<<"0.85", "(high", "confidence)">>))]

ThreadResponses ==
    {<<>>, <<GoodMetric>>, <<GoodMetric, SecondMetric>>, <<GoodMetric, StrMetric>>}

ThreadVerificationResponses ==
    {<<>>,
     <<[verification_status |-> "verified", your_source_quote |-> QuoteB,
        your_value |-> 1005, your_confidence |-> NumVal(Rat(17, 20)),
        your_reasoning |-> Reasoning, conflict_points |-> <<>>]>>}

\* self.verification_log.append(entry)
ListAppend(log, entry) == Append(log, entry)

IdleThread ==
    [pc |-> "idle", original_claims |-> <<>>, i |-> 0, verification_results |-> <<>>,
     entry |-> None, outcome |-> None]

Finished(thread, outcome) == [thread EXCEPT !.pc = "done", !.outcome = Some(outcome)]

InitThreads ==
    /\ threads = [t \in Threads |-> IdleThread]
    /\ rx = NoRegexCall
    /\ llm_client = "scripted"
    /\ verification_log = <<>>
    /\ ev = None
    /\ summary = None
    /\ original \in {MetricClaim("revenue", 1000, "million EUR", "2024",
                         Evidence(QuoteA, 1, NumVal(Rat(9, 10)), Reasoning, <<>>, EmptyText),
                         "llm_evidence_extraction", "extractor_v1")}
    /\ verification = None
    /\ rc = None
    /\ va = None

\* the call up to the loop: extract_with_evidence and the early return
ThreadExtract(t) ==
    /\ threads[t].pc = "idle"
    /\ \E response \in ThreadResponses :
          LET original_claims == extract_with_evidence(Return(response), PageOf(t),
                                                       "extractor_v1")
          IN  threads' = [threads EXCEPT ![t] =
                 IF ~Returned(original_claims) THEN Finished(@, original_claims)
                 ELSE IF Value(original_claims) = <<>> THEN Finished(@, Return(<<>>))
                 ELSE [@ EXCEPT !.pc = "verify", !.i = 1,
                                !.original_claims = Value(original_claims)]]
    /\ UNCHANGED <<rx, llm_client, verification_log, ev, summary>>
    /\ UNCHANGED consensusVars

\* the loop body down to verification_results.append(result)
ThreadVerify(t) ==
    /\ threads[t].pc = "verify"
    /\ \E response \in ThreadVerificationResponses :
          LET claim == threads[t].original_claims[threads[t].i]
              verification_claim == verify_claim(claim, Return(response), "verifier_v1")
              result == resolve_conflict(claim, Value(verification_claim))
          IN  threads' = [threads EXCEPT ![t] =
                 IF ~Returned(verification_claim) THEN Finished(@, verification_claim)
                 ELSE IF ~Returned(result) THEN Finished(@, result)
                 ELSE [@ EXCEPT !.pc = "append",
                                !.verification_results = Append(@, Value(result)),
                                !.entry = Some(LogEntry(PageOf(t), claim, Value(result)))]]
    /\ UNCHANGED <<rx, llm_client, verification_log, ev, summary>>
    /\ UNCHANGED consensusVars

\* self.verification_log.append({...}), then the next claim or the return
ThreadAppend(t) ==
    /\ threads[t].pc = "append"
    /\ verification_log' = ListAppend(verification_log, Get(threads[t].entry))
    /\ threads' = [threads EXCEPT ![t] =
          IF @.i = Len(@.original_claims)
          THEN Finished([@ EXCEPT !.entry = None], Return(@.verification_results))
          ELSE [@ EXCEPT !.pc = "verify", !.i = @ + 1, !.entry = None]]
    /\ UNCHANGED <<rx, llm_client, ev, summary>>
    /\ UNCHANGED consensusVars

NextThreads ==
    \E t \in Threads : ThreadExtract(t) \/ ThreadVerify(t) \/ ThreadAppend(t)

SpecThreads == InitThreads /\ [][NextThreads]_vars

----------------------------------------------------------------------------
(* Reference operators of the claims about the consensus engine *)

\* the agreement ratio as specified: min(|a|,|b|) / max(|a|,|b|)
SpecRatio(a, b) ==
    IF a = 0 /\ b = 0 THEN One
    ELSE IF a = 0 \/ b = 0 THEN Zero
    ELSE Rat(Min(Abs(a), Abs(b)), Max(Abs(a), Abs(b)))

\* the confidence-weighted average of two values
WeightedMean(v1, c1, v2, c2) ==
    IF RAdd(c1, c2) = Zero THEN Rat(v1 + v2, 2)
    ELSE RDiv(RAdd(RMul(Num(v1), c1), RMul(Num(v2), c2)), RAdd(c1, c2))

Resolved == rc # None /\ Returned(Get(rc))
ResolvedWith == Resolved /\ verification # None
Result == Value(Get(rc))
OrigConf == original.evidence.confidence.r
VerConf == Get(verification).evidence.confidence.r
CodeAgreement == _calculate_value_agreement(original.value, Get(verification).value)
ClaimedAgreement == SpecRatio(original.value, Get(verification).value)
BothStrong == RGt(OrigConf, Rat(7, 10)) /\ RGt(VerConf, Rat(7, 10))
EvidenceConflict ==
    /\ RGt(OrigConf, Rat(4, 5))
    /\ RGt(VerConf, Rat(4, 5))
    /\ Cardinality(Split(original.evidence.source_quote)
                   \cap Split(Get(verification).evidence.source_quote)) < 2
IsDisputed ==
    /\ Result.status = DISPUTED
    /\ Result.consensus_value = None
    /\ Result.confidence_score = Rat(3, 10)

----------------------------------------------------------------------------
(* C1: with a verification claim present, a specified agreement ratio      *)
(* min(|a|,|b|)/max(|a|,|b|) above 0.95 and both confidences above 0.7,    *)
(* resolve_conflict returns VERIFIED with consensus_value = original.value *)
(* and confidence_score = the smaller confidence.                          *)
C1_StrongAgreementVerified ==
    (rc # None /\ verification # None
        /\ RGt(ClaimedAgreement, Rat(19, 20)) /\ BothStrong)
    => /\ Returned(Get(rc))
       /\ Result.status = VERIFIED
       /\ Result.consensus_value = Some(Num(original.value))
       /\ Result.confidence_score = RMin(OrigConf, VerConf)

(* C2, as claimed: an evidence conflict (both confidences above 0.8, fewer *)
(* than 2 shared tokens) always yields DISPUTED, no consensus value,       *)
(* confidence 0.3 and a populated conflict_analysis, whatever the value    *)
(* agreement.                                                              *)
C2_ConflictAlwaysDisputed ==
    (rc # None /\ verification # None /\ EvidenceConflict)
    => Returned(Get(rc)) /\ IsDisputed /\ Result.conflict_analysis # ""

(* C2, amended: an evidence conflict yields DISPUTED, no consensus value,  *)
(* confidence 0.3 and a populated conflict_analysis whenever the computed  *)
(* value agreement is at most 0.95.                                        *)
C2_ConflictDisputedUnlessStrongAgreement ==
    (rc # None /\ verification # None /\ EvidenceConflict
        /\ RLe(CodeAgreement, Rat(19, 20)))
    => Returned(Get(rc)) /\ IsDisputed /\ Result.conflict_analysis # ""

C2_Witness ==
    /\ ResolvedWith
    /\ EvidenceConflict
    /\ RLe(Rat(4, 5), CodeAgreement) /\ RLe(CodeAgreement, Rat(19, 20))
    /\ IsDisputed

(* C3: with a verification claim present and a specified agreement ratio   *)
(* below 0.8 (or exactly one value zero), resolve_conflict returns         *)
(* DISPUTED, no consensus value and confidence 0.3, whatever the           *)
(* confidences and quotes.                                                 *)
C3_LowAgreementDisputed ==
    (rc # None /\ verification # None /\ RLt(ClaimedAgreement, Rat(4, 5)))
    => Returned(Get(rc)) /\ IsDisputed

(* C4, as claimed: an UNCERTAIN result with a verification claim has       *)
(* 0.8 <= value_agreement <= 0.95, no evidence conflict, confidence 0.6    *)
(* and the weighted consensus of the two claims as consensus_value.        *)
C4_UncertainInModerateBand ==
    (ResolvedWith /\ Result.status = UNCERTAIN)
    => /\ RLe(Rat(4, 5), CodeAgreement) /\ RLe(CodeAgreement, Rat(19, 20))
       /\ ~EvidenceConflict
       /\ Result.confidence_score = Rat(3, 5)
       /\ Result.consensus_value
            = Some(WeightedMean(original.value, OrigConf,
                                Get(verification).value, VerConf))

(* C4, amended: an UNCERTAIN result with a verification claim has          *)
(* value_agreement >= 0.8 and no evidence conflict, and either             *)
(* value_agreement <= 0.95 or not both confidences above 0.7; its          *)
(* confidence is 0.6 and its consensus_value the weighted consensus.       *)
C4_UncertainNotAgreedNotDisputed ==
    (ResolvedWith /\ Result.status = UNCERTAIN)
    => /\ RLe(Rat(4, 5), CodeAgreement)
       /\ ~EvidenceConflict
       /\ (RLe(CodeAgreement, Rat(19, 20)) \/ ~BothStrong)
       /\ Result.confidence_score = Rat(3, 5)
       /\ Result.consensus_value
            = Some(WeightedMean(original.value, OrigConf,
                                Get(verification).value, VerConf))

C4_Witness ==
    /\ ResolvedWith
    /\ Result.status = UNCERTAIN
    /\ RGt(CodeAgreement, Rat(19, 20))
    /\ original.value # Get(verification).value
    /\ RGt(OrigConf, Zero) /\ RGt(VerConf, Zero) /\ OrigConf # VerConf

(* C5: without a verification claim resolve_conflict returns UNCERTAIN,    *)
(* consensus_value = original.value, confidence_score = half the original  *)
(* confidence, no verification_claim and conflict_analysis                 *)
(* "Verification failed".                                                  *)
C5_NoVerificationHalved ==
    (rc # None /\ verification = None)
    => /\ Returned(Get(rc))
       /\ Result.status = UNCERTAIN
       /\ Result.consensus_value = Some(Num(original.value))
       /\ RAdd(Result.confidence_score, Result.confidence_score) = OrigConf
       /\ Result.verification_claim = None
       /\ Result.conflict_analysis = "Verification failed"

C5_Witness ==
    /\ Resolved /\ verification = None
    /\ RGt(OrigConf, Zero)
    /\ Result.status = UNCERTAIN
    /\ RLt(Result.confidence_score, OrigConf)

(* C7: the computed agreement ratio lies in [0, 1] and, for two non-zero   *)
(* values, equals min(|a|,|b|)/max(|a|,|b|), negative values included.     *)
C7_AgreementInUnitInterval ==
    va # None
    => /\ RLe(Zero, Get(va).ab) /\ RLe(Get(va).ab, One)
       /\ (original.value # 0 /\ Get(verification).value # 0
            => Get(va).ab = ClaimedAgreement)

(* C8: the computed agreement ratio is symmetric, is 1 on equal values     *)
(* (zero included) and is 0 when exactly one value is zero.                *)
C8_AgreementSymmetricReflexive ==
    va # None
    => LET a == original.value
           b == Get(verification).value
       IN  /\ Get(va).ab = Get(va).ba
           /\ (a = b => Get(va).ab = One)
           /\ ((a = 0) # (b = 0) => Get(va).ab = Zero /\ Get(va).ba = Zero)

C8_Witness ==
    /\ va # None
    /\ original.value < 0
    /\ Get(verification).value > 0
    /\ Get(va).ab = Get(va).ba

----------------------------------------------------------------------------
(* Reference operators of the claims about one extract_and_verify call *)

Called == ev # None
Call == Get(ev)
Extracted == Called /\ Returned(Call.claims)
ExtractedClaims == Value(Call.claims)
Results == Value(Call.outcome)

\* a verification reply with nothing usable: an empty response, or a record with no
\* found value, no found quote and no confidence
NothingUsable(call) ==
    \/ Value(call.reply) = <<>>
    \/ {"your_value", "your_source_quote", "your_confidence"}
            \cap DOMAIN Value(call.reply)[1] = {}

\* the request of a gateway call failed: a timeout, a network error, a non-success
\* status or a body that is no chat completion
RequestFailed(http) ==
    \/ http.kind \in {"Timeout", "ConnectionError"}
    \/ http.kind = "Response"
        /\ (http.status_code # 200 \/ http.body \in {"not json", "no choices"})

\* the extraction call went to the network (the direct extraction found nothing)
RequestMade ==
    /\ llm_client = "LLMClient"
    /\ ~(Call.text.length > 500
         /\ _extract_ryanair_format_directly(Call.text, Call.page_num) # <<>>)

----------------------------------------------------------------------------
(* C6: in a returned call, the result of every extracted claim whose        *)
(* verification reply held nothing usable (an empty response, or a record   *)
(* with no found value, quote or confidence) is UNCERTAIN with half the     *)
(* original claim's confidence.                                             *)
C6_NoEvidenceUncertainHalved ==
    (Extracted /\ Returned(Call.outcome))
    => \A i \in 1..Len(ExtractedClaims) :
          NothingUsable(Call.verification_calls[i])
          => /\ Results[i].status = UNCERTAIN
             /\ RAdd(Results[i].confidence_score, Results[i].confidence_score)
                    = ExtractedClaims[i].evidence.confidence.r

(* C9: every extract_and_verify call returns (an empty list or a list of    *)
(* results, one per extracted claim, each with a status of the enumeration);*)
(* it never raises, whatever records the gateway answers.                   *)
C9_NeverRaises ==
    Called
    => /\ Returned(Call.outcome)
       /\ \A i \in 1..Len(Results) : Results[i].status \in VerificationStatus

(* C10: when the extraction agent's gateway request fails (timeout, network *)
(* error, non-success status, unparsable reply), extract_with_evidence      *)
(* returns an empty list, extract_and_verify returns an empty list and no   *)
(* exception reaches the caller.                                            *)
C10_GatewayFailureYieldsEmpty ==
    (Called /\ RequestMade /\ RequestFailed(Call.extraction_call.http))
    => /\ Call.claims = Return(<<>>)
       /\ Call.outcome = Return(<<>>)

C10_Witness ==
    /\ Called /\ RequestMade
    /\ Call.extraction_call.http.kind = "Timeout"
    /\ Call.outcome = Return(<<>>)
    /\ verification_log = <<>>

----------------------------------------------------------------------------
(* Reference operators of the claims about a sequence of calls *)

\* the verification request for claim i failed, or its response was empty
FailedOrEmpty(call) ==
    \/ call.http.kind \in {"Timeout", "ConnectionError"}
    \/ call.reply = Return(<<>>)

\* what the verification agent returns for claim i of the call
VerificationOf(i) ==
    verify_claim(ExtractedClaims[i], Call.verification_calls[i].reply, "verifier_v1")

\* the log entries the call appended
Appended == SubSeq(verification_log, Len(Call.log_before) + 1, Len(verification_log))

\* claim j of the call was verified, resolved, returned and logged
Processed(j) ==
    /\ Returned(VerificationOf(j))
    /\ Len(Results) >= j /\ Len(Appended) >= j
    /\ Returned(resolve_conflict(ExtractedClaims[j], Value(VerificationOf(j))))
    /\ Results[j] = Value(resolve_conflict(ExtractedClaims[j], Value(VerificationOf(j))))
    /\ Appended[j] = LogEntry(Call.page_num, ExtractedClaims[j], Results[j])

Count(seq, x) == Cardinality({k \in 1..Len(seq) : seq[k] = x})

----------------------------------------------------------------------------
----------------------------------------------------------------------------
(* Reference operators of the claim about the evidence check *)

\* the gateway's response to the extraction query, and its records that pass the check
ExtractionResponse == Value(Call.extraction_call.reply)
KeptRecords == SelectSeq(ExtractionResponse, _has_valid_evidence)

\* the record has the three evidence fields, and a source_quote and a reasoning of more
\* than 10 characters after trimming
HasEvidence(raw) ==
    /\ {"source_quote", "confidence", "reasoning"} \subseteq DOMAIN raw
    /\ StripLen(raw.source_quote) > 10
    /\ StripLen(raw.reasoning) > 10

(* C12: the claims extract_with_evidence returns are, in order, the claims  *)
(* built of the records that have source_quote, confidence and reasoning    *)
(* with a source_quote and a reasoning of more than 10 trimmed characters;  *)
(* the other records are dropped without an exception: the call returns     *)
(* unless a record that passed the check lacks a claim key.                 *)
C12_OnlyEvidencedRecordsBecomeClaims ==
    (Called /\ Returned(Call.extraction_call.reply))
    => LET kept == KeptRecords
           claims == Call.claims
       IN  IF Returned(claims)
           THEN /\ Len(Value(claims)) = Len(kept)
                /\ \A k \in 1..Len(kept) :
                      /\ HasEvidence(kept[k])
                      /\ Value(claims)[k].metric_name = kept[k].metric_name
                      /\ Value(claims)[k].value = kept[k].value
                      /\ Value(claims)[k].evidence.source_quote = kept[k].source_quote
                      /\ Value(claims)[k].evidence.confidence = kept[k].confidence
                      /\ Value(claims)[k].evidence.reasoning = kept[k].reasoning
           ELSE \E k \in 1..Len(kept) :
                   ~({"metric_name", "value", "unit", "period"} \subseteq DOMAIN kept[k])

C12_Witness ==
    /\ Extracted
    /\ Len(ExtractionResponse) = 2
    /\ "reasoning" \in DOMAIN ExtractionResponse[1]
    /\ StripLen(ExtractionResponse[1].reasoning) <= 10
    /\ Len(ExtractedClaims) = 1
    /\ ExtractedClaims[1].evidence.reasoning = ExtractionResponse[2].reasoning

----------------------------------------------------------------------------
----------------------------------------------------------------------------
(* C14: when the extraction yields no claim, extract_and_verify returns an  *)
(* empty list, makes no verification query and no consensus resolution, and *)
(* leaves the log, hence the summary and its total_extractions, unchanged.  *)
C14_NoClaimsNoWork ==
    (Extracted /\ ExtractedClaims = <<>>)
    => /\ Call.outcome = Return(<<>>)
       /\ Call.events = <<"extraction query">>
       /\ Call.verification_calls = <<>>
       /\ verification_log = Call.log_before
       /\ get_verification_summary(verification_log)
            = get_verification_summary(Call.log_before)

C14_Witness ==
    /\ Extracted /\ ExtractedClaims = <<>>
    /\ ExtractionResponse # <<>>
    /\ Call.outcome = Return(<<>>)
    /\ verification_log # <<>>
    /\ get_verification_summary(verification_log).total_extractions
         = Len(Call.log_before)

----------------------------------------------------------------------------
(* Reference operators of the claims about the summary *)

Summarized == summary # None
TheSummary == Get(summary)
Entries(status) == {k \in 1..Len(verification_log) : verification_log[k].status = status}

(* C15: after any sequence of extract_and_verify calls, a summary that is   *)
(* not empty has total_extractions = the number of log entries and          *)
(* verified_count + disputed_count <= total_extractions.                    *)
C15_VerifiedPlusDisputedAtMostTotal ==
    (Summarized /\ verification_log # <<>>)
    => /\ TheSummary.total_extractions = Len(verification_log)
       /\ TheSummary.verified_count + TheSummary.disputed_count
            <= TheSummary.total_extractions

C15_Witness ==
    /\ Summarized /\ Len(verification_log) >= 3
    /\ TheSummary.verified_count >= 1
    /\ TheSummary.disputed_count >= 1
    /\ TheSummary.verified_count + TheSummary.disputed_count
         < TheSummary.total_extractions

(* C16: get_verification_summary returns the empty dict exactly when the    *)
(* log is empty; otherwise requires_review = disputed_count,                *)
(* verification_rate = verified_count / total_extractions, and              *)
(* verified_count and disputed_count are the numbers of log entries with    *)
(* status verified and disputed.                                            *)
C16_SummaryOfLog ==
    Summarized
    => /\ (TheSummary = EmptyDict) <=> (verification_log = <<>>)
       /\ verification_log # <<>>
          => /\ TheSummary.requires_review = TheSummary.disputed_count
             /\ TheSummary.verification_rate
                  = Rat(TheSummary.verified_count, TheSummary.total_extractions)
             /\ TheSummary.verified_count = Cardinality(Entries("verified"))
             /\ TheSummary.disputed_count = Cardinality(Entries("disputed"))

C16_Witness ==
    /\ Summarized /\ TheSummary # EmptyDict
    /\ TheSummary.disputed_count = 2
    /\ TheSummary.requires_review = 2
    /\ TheSummary.verified_count = 1
    /\ TheSummary.verification_rate = Rat(1, 3)

C16_WitnessEmpty ==
    /\ Summarized /\ TheSummary = EmptyDict
    /\ ev # None

----------------------------------------------------------------------------
(* C17: no result extract_and_verify returns (each one a result of          *)
(* resolve_conflict) and no log entry has status REJECTED; VERIFIED,        *)
(* DISPUTED and UNCERTAIN are all reached.                                  *)
C17_RejectedNeverEmitted ==
    /\ \A k \in 1..Len(verification_log) :
          verification_log[k].status \in {VERIFIED, DISPUTED, UNCERTAIN}
    /\ (Called /\ Returned(Call.outcome))
       => \A i \in 1..Len(Results) :
             Results[i].status \in {VERIFIED, DISPUTED, UNCERTAIN}

C17_Witness ==
    /\ Entries(VERIFIED) # {}
    /\ Entries(DISPUTED) # {}
    /\ Entries(UNCERTAIN) # {}
    /\ Called /\ Returned(Call.outcome) /\ Results # <<>>

----------------------------------------------------------------------------
(* C18: in every result of resolve_conflict the consensus_value is absent   *)
(* exactly when the status is DISPUTED; a VERIFIED or UNCERTAIN result,     *)
(* with or without a verification claim, carries a number.                  *)
C18_ConsensusAbsentIffDisputed ==
    Resolved
    => /\ (Result.consensus_value = None) <=> (Result.status = DISPUTED)
       /\ Result.status \in {VERIFIED, UNCERTAIN}
          => /\ Len(Result.consensus_value) = 1
             /\ Get(Result.consensus_value)[2] > 0

C18_Witness ==
    /\ ResolvedWith
    /\ Result.status = DISPUTED
    /\ Result.consensus_value = None
    /\ RLt(CodeAgreement, Rat(4, 5))

C18_WitnessPresent ==
    /\ Resolved /\ verification = None
    /\ Result.status = UNCERTAIN
    /\ Result.consensus_value = Some(Num(original.value))

----------------------------------------------------------------------------
(* C19: every result extract_and_verify returns and every log entry has a   *)
(* confidence within [0.0, 1.0], whatever confidences the gateway's records *)
(* carry.                                                                   *)
InUnitInterval(r) == RLe(Zero, r) /\ RLe(r, One)

C19_ConfidenceInUnitInterval ==
    /\ \A k \in 1..Len(verification_log) : InUnitInterval(verification_log[k].confidence)
    /\ (Called /\ Returned(Call.outcome))
       => \A i \in 1..Len(Results) : InUnitInterval(Results[i].confidence_score)

----------------------------------------------------------------------------
----------------------------------------------------------------------------
(* C22: in every result with a verification claim, that claim has           *)
(* extraction_method "verification_check", an agent_id other than the       *)
(* original claim's, the original's metric_name, unit and period, and an    *)
(* evidence whose quote, confidence and reasoning are those of the          *)
(* verification gateway's record ("" and 0.0 where the record has none),    *)
(* never those of the original claim.                                       *)
C22_VerificationClaimIndependent ==
    (Extracted /\ Returned(Call.outcome))
    => \A i \in 1..Len(Results) :
          Results[i].verification_claim # None
          => LET v == Get(Results[i].verification_claim)
                 o == Results[i].original_claim
                 data == Value(Call.verification_calls[i].reply)[1]
             IN  /\ v.extraction_method = "verification_check"
                 /\ v.agent_id # o.agent_id
                 /\ v.metric_name = o.metric_name
                 /\ v.unit = o.unit
                 /\ v.period = o.period
                 /\ v.evidence.source_quote
                      = (IF "your_source_quote" \in DOMAIN data
                         THEN data.your_source_quote ELSE EmptyText)
                 /\ v.evidence.confidence
                      = (IF "your_confidence" \in DOMAIN data
                         THEN data.your_confidence ELSE NumVal(Zero))
                 /\ v.evidence.reasoning
                      = (IF "your_reasoning" \in DOMAIN data
                         THEN data.your_reasoning ELSE EmptyText)

C22_Witness ==
    /\ Extracted /\ Returned(Call.outcome) /\ Results # <<>>
    /\ Results[1].verification_claim # None
    /\ "your_source_quote" \notin DOMAIN Value(Call.verification_calls[1].reply)[1]
    /\ Get(Results[1].verification_claim).evidence.source_quote = EmptyText
    /\ Get(Results[1].verification_claim).agent_id = "verifier_v1"
    /\ Results[1].original_claim.agent_id = "extractor_v1"

----------------------------------------------------------------------------
(* C23: for every table row "<name> <n1> <n2> <n3>" of the text whose name  *)
(* is a financial line item, extract_with_regex_fixed returns a metric with *)
(* that name, whose value is n1 with the thousands separators removed and   *)
(* whose page number is the one given.                                      *)

RegexCalled == rx.metrics # None
RegexMetrics == Get(rx.metrics)

\* a row of the claim's form: a line item's name and three numeric columns
IsLineItemRow(line) == Len(line.numbers) = 3

C23_EveryLineItemRowExtracted ==
    RegexCalled
    => \A i \in 1..Len(rx.text) :
          IsLineItemRow(rx.text[i])
          => \E j \in 1..Len(RegexMetrics) :
                /\ RegexMetrics[j].metric = rx.text[i].name
                /\ RegexMetrics[j].value = Value(ColumnValue(rx.text[i].numbers[1]))
                /\ RegexMetrics[j].page_number = rx.page_num

----------------------------------------------------------------------------
(* C24: the verification log is append-only.  Every step of the orchestrator *)
(* leaves the entries the log holds where and as they are (the log before    *)
(* the step is a prefix of the log after it), a get_verification_summary     *)
(* step leaves the log unchanged, and hence a log that has held an entry is  *)
(* never empty again.                                                        *)

IsPrefix(s, t) == Len(s) <= Len(t) /\ SubSeq(t, 1, Len(s)) = s

C24_LogAppendOnly ==
    [][/\ IsPrefix(verification_log, verification_log')
       /\ (summary' # None => verification_log' = verification_log)
       /\ (verification_log # <<>> => verification_log' # <<>>)]_vars

\* a call has appended to a log that held entries, and the summary was then taken
C24_Witness ==
    /\ Summarized
    /\ Called /\ Call.log_before # <<>>
    /\ Len(verification_log) > Len(Call.log_before)
    /\ IsPrefix(Call.log_before, verification_log)

----------------------------------------------------------------------------
(* C25: when two extract_and_verify calls run concurrently on the shared    *)
(* system, no log entry is lost or duplicated: once both calls have         *)
(* finished, the log holds as many entries as the two calls returned        *)
(* results, whatever the interleaving.                                      *)

AllFinished == threads # NoThreads /\ \A t \in Threads : threads[t].pc = "done"

\* the number of results the thread's call returned
ReturnedResults(t) ==
    LET outcome == Get(threads[t].outcome)
    IN  IF Returned(outcome) THEN Len(Value(outcome)) ELSE 0

RECURSIVE SumReturned(_)
SumReturned(ts) ==
    IF ts = {} THEN 0
    ELSE LET t == CHOOSE u \in ts : TRUE
         IN  ReturnedResults(t) + SumReturned(ts \ {t})

C25_LogLengthIsResultsReturned ==
    AllFinished => Len(verification_log) = SumReturned(Threads)

----------------------------------------------------------------------------
(* C26: _weighted_consensus of two claims is (v1*c1 + v2*c2)/(c1 + c2) for  *)
(* their values and evidence confidences, and (v1 + v2)/2 when c1 + c2 = 0, *)
(* whether source_overlap is true or false; it is the consensus value of    *)
(* the moderate-agreement result.                                           *)

\* the evidence strength of the two claims, with source_overlap as given
StrengthWith(overlap) ==
    [Value(_evaluate_evidence_strength(original.evidence, Get(verification).evidence))
        EXCEPT !.source_overlap = overlap]

C26_WitnessZeroWeights ==
    /\ ResolvedWith
    /\ Result.status = UNCERTAIN
    /\ RAdd(OrigConf, VerConf) = Zero
    /\ original.value # Get(verification).value
    /\ Result.consensus_value = Some(Rat(original.value + Get(verification).value, 2))

----------------------------------------------------------------------------
(* C27: a call of extract_and_verify that extracts n claims issues exactly  *)
(* 1 + n gateway queries: the extraction query first, then for each claim   *)
(* in extraction order its verification query, its consensus resolution    *)
(* and its log append, claim i's before claim i+1's verification query.     *)

RECURSIVE ClaimEvents(_)
ClaimEvents(n) ==
    IF n = 0 THEN <<>>
    ELSE ClaimEvents(n - 1) \o <<"verification query", "resolve_conflict", "log append">>

Queries(events) == Count(events, "extraction query") + Count(events, "verification query")

C27_OneQueryPerClaimInOrder ==
    Extracted
    => /\ Queries(Call.events) = 1 + Len(ExtractedClaims)
       /\ Call.events = <<"extraction query">> \o ClaimEvents(Len(ExtractedClaims))

----------------------------------------------------------------------------
(* C30: the summary is cumulative and monotone: over every call of          *)
(* extract_and_verify, total_extractions grows by exactly the number of     *)
(* results the call returns, and verified_count and disputed_count do not   *)
(* decrease.                                                                *)

\* a counter of the summary; the summary of an empty log is {} and counts nothing
Counter(log, key) == IF log = <<>> THEN 0 ELSE get_verification_summary(log)[key]

ResultsReturned == IF Returned(Call.outcome) THEN Len(Value(Call.outcome)) ELSE 0

C30_SummaryGrowsByResultsReturned ==
    Called
    => /\ Counter(verification_log, "total_extractions")
            = Counter(Call.log_before, "total_extractions") + ResultsReturned
       /\ Counter(verification_log, "verified_count")
            >= Counter(Call.log_before, "verified_count")
       /\ Counter(verification_log, "disputed_count")
            >= Counter(Call.log_before, "disputed_count")

----------------------------------------------------------------------------
(* C28: with the repository's LLMClient as the gateway, every record the    *)
(* gateway returns has the keys name, value, unit, period, confidence,      *)
(* source_text, page_number and extraction_method and so neither            *)
(* source_quote nor reasoning; the Extraction Agent drops every record,     *)
(* extract_and_verify returns [] and the log stays empty, whatever the      *)
(* calls made so far.                                                       *)

ClientKeys ==
    {"name", "value", "unit", "period", "confidence", "source_text", "page_number",
     "extraction_method"}

----------------------------------------------------------------------------
(* C29: the evidence check puts the confidence to the test of the text      *)
(* fields: a record becomes a claim only if its confidence is truthy and    *)
(* its textual form has more than 10 characters, so a record with the       *)
(* confidence 0 or 0.9 is dropped even when its source_quote and reasoning  *)
(* are valid.                                                               *)

\* len(str(confidence).strip())
ConfidenceChars(confidence) ==
    IF IsNum(confidence) THEN ReprLen(confidence.r) ELSE StripLen(confidence.t)

ConfidenceAccepted(confidence) ==
    /\ IF IsNum(confidence) THEN confidence.r # Zero ELSE TextTruthy(confidence.t)
    /\ ConfidenceChars(confidence) > 10

AcceptedRecords ==
    {k \in 1..Len(ExtractionResponse) :
        /\ HasEvidence(ExtractionResponse[k])
        /\ ConfidenceAccepted(ExtractionResponse[k].confidence)}

C29_WitnessZero ==
    /\ Called /\ Returned(Call.extraction_call.reply) /\ Returned(Call.claims)
    /\ Len(ExtractionResponse) = 1
    /\ HasEvidence(ExtractionResponse[1])
    /\ ExtractionResponse[1].confidence = NumVal(Zero)
    /\ ExtractedClaims = <<>>

====
